---- MODULE Spec2Model ----
(***************************************************************************)
(* Model of the equity-report pipeline of src/app.py: the /generate        *)
(* request, create_report, the indicator engine, the interpreter, the      *)
(* scorer, the peer aggregator and ReportPDF.create_pdf.                   *)
(*                                                                         *)
(* Numbers.  Closes are integers.  A pandas value that may be NaN/None is  *)
(* an option: <<>> is NaN/None, <<v>> is the value v.  Rolling means are   *)
(* kept exactly as (window sum, window); the rolling standard deviation    *)
(* as the exact integer w*Q - S^2 it is the root of; RSI as the exact      *)
(* pair (gain, loss) it is computed from; comparisons are done by exact    *)
(* cross-multiplication.  Only the EMAs are fixed-point (EmaScale).        *)
(***************************************************************************)
EXTENDS Integers, Sequences, FiniteSets, TLC

VARIABLES pc, stock_ticker, fundamentals, price_df, tech_analysis, score,
          recommendation, key_highlights, lookups, peer_df, news, pdf, response

vars == <<pc, stock_ticker, fundamentals, price_df, tech_analysis, score,
          recommendation, key_highlights, lookups, peer_df, news, pdf, response>>

\* ---------------------------------------------------------------- options
None == <<>>
Some(v) == <<v>>
Val(o) == o[1]
\* pd.notna / "is not None"
NotNa(o) == o # None
Opt(S) == {None} \cup {Some(v) : v \in S}

Max(a, b) == IF a > b THEN a ELSE b
Min(a, b) == IF a < b THEN a ELSE b

\* ---------------------------------------------------------------- bounds
\* longest price series of the long patterns
MaxBars == 202
\* longest price series of the exhaustive short patterns
MaxShort == 16
\* first close of every modelled series
Base == 300
\* fixed-point scale of the exponential moving averages
EmaScale == 1000
\* largest value of a drawn indicator entry
MaxVal == 2
\* how far around each scorer threshold the fundamentals are drawn
Margin == 1
\* longest drawn signal list
MaxSignals == 2
\* most items the news source returns
MaxNews == 2
\* most period columns of a drawn financial statement
MaxCols == 5

\* ------------------------------------------------------- program constants
Sma50Window == 50
Sma200Window == 200
BbWindow == 20
BbWidth == 2
Ema12Span == 12
Ema26Span == 26
MacdSignalSpan == 9
RsiWindow == 14
\* 1e-9 is 1 / EpsInv
EpsInv == 1000000000
\* rsi thresholds, in hundredths
RsiOverbought == 7000
RsiOversold == 3000
\* scorer thresholds; ROE is kept in hundredths (0.15 is 15)
RoeThreshold == 15
PeThreshold == 30
DeThreshold == 150
NewsLimit == 5
BuyThreshold == 3
HoldThreshold == 1

\* ------------------------------------------------------------ price series
\* A series is drawn by its length and its repeating pattern of daily deltas.
PatLen == 3
Patterns == [1..PatLen -> {-1, 0, 1}]
\* the pattern a, b, c, a, ...
Pattern(a, b, c) ==
    [k \in 1..PatLen |-> IF k % 3 = 1 THEN a ELSE IF k % 3 = 2 THEN b ELSE c]
LongPatterns == {Pattern(0, 0, 0), Pattern(1, 1, 1), Pattern(-1, -1, -1),
                 Pattern(1, -1, 0), Pattern(1, -1, 1), Pattern(-1, 1, -1)}

RECURSIVE PrefixSum(_, _)
PrefixSum(pat, k) == IF k = 0 THEN 0 ELSE pat[k] + PrefixSum(pat, k - 1)

\* close 1 is Base; close i+1 is close i plus the pattern's next delta
Series(pat, n) ==
    [i \in 1..n |->
        Base + ((i - 1) \div PatLen) * PrefixSum(pat, PatLen)
             + PrefixSum(pat, (i - 1) % PatLen)]

\* the closes of a fetched frame are all numeric (spec 4.1: "all closes numeric")
Frame(closes) == [Close |-> [i \in 1..Len(closes) |-> Some(closes[i])]]

\* every short length; around each rolling window; every length from the
\* longest window up to MaxBars
LongLengths == {BbWindow - 1, BbWindow, Sma50Window - 1, Sma50Window,
                Sma200Window - 1} \cup (Sma200Window..MaxBars)
AllSeries == {Series(p, n) : p \in Patterns, n \in 0..MaxShort}
                 \cup {Series(p, n) : p \in LongPatterns, n \in LongLengths}

\* ------------------------------------------------------- indicator engine
Closes(df) == [i \in 1..Len(df.Close) |-> Val(df.Close[i])]

\* sums over s[a..b], halving the range
RECURSIVE SumRange(_, _, _)
SumRange(s, a, b) ==
    IF a > b THEN 0
    ELSE IF a = b THEN s[a]
    ELSE LET m == (a + b) \div 2
         IN  SumRange(s, a, m) + SumRange(s, m + 1, b)

RECURSIVE SumSqRange(_, _, _)
SumSqRange(s, a, b) ==
    IF a > b THEN 0
    ELSE IF a = b THEN s[a] * s[a]
    ELSE LET m == (a + b) \div 2
         IN  SumSqRange(s, a, m) + SumSqRange(s, m + 1, b)

\* RollingMean as rolling(window=w, min_periods=1) would compute it
RollingMeanMinPeriods1(s, w) ==
    [i \in 1..Len(s) |->
        Some([sum |-> SumRange(s, IF i < w THEN 1 ELSE i - w + 1, i),
              win |-> IF i < w THEN i ELSE w])]

\* Series.rolling(window=w).mean(): NaN until the window holds w observations;
\* the mean is kept as (sum, win).
RollingMean(s, w) ==
    [i \in 1..Len(s) |->
        IF i < w THEN None
        ELSE Some([sum |-> SumRange(s, i - w + 1, i), win |-> w])]

\* Series.rolling(window=w).std(): the sample deviation sqrt(dev / (w*(w-1)))
\* with dev = w*Q - S^2, kept as (dev, win).
RollingStd(s, w) ==
    [i \in 1..Len(s) |->
        IF i < w THEN None
        ELSE LET S == SumRange(s, i - w + 1, i)
                 Q == SumSqRange(s, i - w + 1, i)
             IN  Some([dev |-> w * Q - S * S, win |-> w])]

\* bb_mid + k * bb_std, NaN where either is
Band(mid, std, k) ==
    [i \in 1..Len(mid) |->
        IF NotNa(mid[i]) /\ NotNa(std[i])
        THEN Some([mid |-> Val(mid[i]), std |-> Val(std[i]), k |-> k])
        ELSE None]

\* Series.ewm(span=span, adjust=False).mean() of a fixed-point series:
\* y[1] = x[1], y[t] = (2*x[t] + (span-1)*y[t-1]) / (span+1)
EwmStep(y, x, span) == (2 * x + (span - 1) * y) \div (span + 1)

\* the outputs for s[a..b], given the output y before a
RECURSIVE EwmRun(_, _, _, _, _)
EwmRun(y, s, span, a, b) ==
    IF a > b THEN <<>>
    ELSE IF a = b THEN <<EwmStep(y, s[a], span)>>
    ELSE LET m == (a + b) \div 2
             left == EwmRun(y, s, span, a, m)
         IN  left \o EwmRun(left[Len(left)], s, span, m + 1, b)

Ewm(s, span) ==
    IF Len(s) = 0 THEN <<>> ELSE <<s[1]>> \o EwmRun(s[1], s, span, 2, Len(s))

Minus(a, b) == [i \in 1..Len(a) |-> a[i] - b[i]]

\* a column without NaN
Column(s) == [i \in 1..Len(s) |-> Some(s[i])]

\* Series.diff(): NaN at the first bar
Diff(s) == [i \in 1..Len(s) |-> IF i = 1 THEN None ELSE Some(s[i] - s[i - 1])]

\* delta.where(delta > 0, 0): 0 wherever the condition is False, NaN included
GainInput(delta) ==
    [i \in 1..Len(delta) |->
        IF NotNa(delta[i]) /\ Val(delta[i]) > 0 THEN Val(delta[i]) ELSE 0]

\* -delta.where(delta < 0, 0)
LossInput(delta) ==
    [i \in 1..Len(delta) |->
        IF NotNa(delta[i]) /\ Val(delta[i]) < 0 THEN 0 - Val(delta[i]) ELSE 0]

\* loss.replace(0, 1e-9): the loss average as the fraction num/den
ReplaceZero(loss) ==
    [i \in 1..Len(loss) |->
        IF loss[i] = None THEN None
        ELSE IF Val(loss[i]).sum = 0 THEN Some([num |-> 1, den |-> EpsInv])
        ELSE Some([num |-> Val(loss[i]).sum, den |-> Val(loss[i]).win])]

\* rs = gain / loss; 100 - (100 / (1 + rs)), kept as the pair it is computed from
Rsi(gain, loss) ==
    [i \in 1..Len(gain) |->
        IF NotNa(gain[i]) /\ NotNa(loss[i])
        THEN Some([gain |-> Val(gain[i]), loss |-> Val(loss[i])])
        ELSE None]

compute_technical_indicators(df) ==
    IF df = None THEN None
    ELSE LET close == Closes(Val(df))
             fx == [i \in 1..Len(close) |-> close[i] * EmaScale]
             bb_mid == RollingMean(close, BbWindow)
             bb_std == RollingStd(close, BbWindow)
             ema_12 == Ewm(fx, Ema12Span)
             ema_26 == Ewm(fx, Ema26Span)
             macd_line == Minus(ema_12, ema_26)
             macd_signal == Ewm(macd_line, MacdSignalSpan)
             delta == Diff(close)
             gain == RollingMean(GainInput(delta), RsiWindow)
             loss == RollingMean(LossInput(delta), RsiWindow)
         IN  Some([Close |-> Val(df).Close,
                   sma_50 |-> RollingMean(close, Sma50Window),
                   sma_200 |-> RollingMean(close, Sma200Window),
                   bb_mid |-> bb_mid,
                   bb_std |-> bb_std,
                   bb_upper |-> Band(bb_mid, bb_std, BbWidth),
                   bb_lower |-> Band(bb_mid, bb_std, 0 - BbWidth),
                   ema_12 |-> Column(ema_12),
                   ema_26 |-> Column(ema_26),
                   macd_line |-> Column(macd_line),
                   macd_signal |-> Column(macd_signal),
                   macd_hist |-> Column(Minus(macd_line, macd_signal)),
                   rsi |-> Rsi(gain, ReplaceZero(loss))])

\* ------------------------------------------------------- exact comparisons
\* MeanGT with the comparison turned round
MeanLT(a, b) == a.sum * b.win < b.sum * a.win

\* mean a > mean b
MeanGT(a, b) == a.sum * b.win > b.sum * a.win

\* close > mid + k*std   (k >= 0)
AboveBand(c, u) ==
    LET w == u.mid.win
        d == w * c - u.mid.sum
    IN  d > 0 /\ d * d * (w - 1) > u.k * u.k * w * u.std.dev

\* rsi > k/100 and rsi < k/100, rsi = 100*g/(g+l), g = gain.sum/gain.win,
\* l = loss.num/loss.den
RsiGT(r, k) ==
    (10000 - k) * r.gain.sum > (k * r.loss.num * r.gain.win) \div r.loss.den
RsiLT(r, k) ==
    (10000 - k) * r.gain.sum < 0 - ((0 - (k * r.loss.num * r.gain.win)) \div r.loss.den)

\* ------------------------------------------------------------- interpreter
\* A rendered string is the sequence of its words; "w in s" is membership.
Contains(s, w) == \E i \in 1..Len(s) : s[i] = w
AnyContains(list, w) == \E j \in 1..Len(list) : Contains(list[j], w)

NotAvailableSignal == <<"Technical", "data", "not", "available.">>
TrendSignal(label) ==
    <<"<b>Trend", "(SMA):</b>">> \o
    (IF label = "Bullish" THEN <<"Bullish", "(Golden", "Cross)">>
     ELSE <<"Bearish", "(Death", "Cross)">>)
VolatilitySignal(label) ==
    <<"<b>Volatility", "(Bollinger):</b>">> \o
    (IF label = "High" THEN <<"High", "(Price", "above", "upper", "band)">>
     ELSE <<"Normal">>)
MomentumSignal(label) ==
    <<"<b>Momentum", "(MACD):</b>">> \o
    (IF label = "Positive" THEN <<"Positive", "(MACD", "above", "signal)">>
     ELSE <<"Negative", "(MACD", "below", "signal)">>)
\* rsi = 100 - 100/(1 + gain/loss) = 100*g/(g + l) in hundredths, rounded as
\* {rsi:.2f} rounds. With the epsilon loss and a positive gain sum s the value
\* is 100/(1 + RsiWindow/(s*EpsInv)), within 10^-5 of 100, and prints 100.00.
RsiHundredths(r) ==
    IF r.loss.den = EpsInv
    THEN IF r.gain.sum = 0 THEN 0 ELSE 10000
    ELSE LET n == 10000 * r.gain.sum * r.loss.den
             d == r.gain.sum * r.loss.den + r.loss.num * r.gain.win
         IN  (2 * n + d) \div (2 * d)
\* "{x:.2f}" of x = h/100, h >= 0
Format2f(h) ==
    ToString(h \div 100) \o "." \o
    (IF h % 100 < 10 THEN "0" ELSE "") \o ToString(h % 100)
StrengthSignal(label, rsi) ==
    <<"<b>Strength", "(RSI):</b>", label, "at", Format2f(rsi)>>

\* df.iloc[-1] and latest.get(column)
Latest(df) == [c \in DOMAIN df |-> df[c][Len(df.Close)]]
Get(row, c) == IF c \in DOMAIN row THEN row[c] ELSE None

\* RsiLabel with the Overbought threshold inclusive
RsiLabelInclusive(rsi) ==
    IF ~RsiLT(rsi, RsiOverbought) THEN "Overbought"
    ELSE IF RsiLT(rsi, RsiOversold) THEN "Oversold"
    ELSE "Neutral"

RsiLabel(rsi) ==
    IF RsiGT(rsi, RsiOverbought) THEN "Overbought"
    ELSE IF RsiLT(rsi, RsiOversold) THEN "Oversold"
    ELSE "Neutral"

interpret_technical(df) ==
    IF df = None \/ Len(Val(df).Close) = 0 THEN <<NotAvailableSignal>>
    ELSE LET latest == Latest(Val(df))
             sma_50 == Get(latest, "sma_50")
             sma_200 == Get(latest, "sma_200")
             close_price == Get(latest, "Close")
             bb_upper == Get(latest, "bb_upper")
             macd_line == Get(latest, "macd_line")
             macd_signal == Get(latest, "macd_signal")
             rsi == Get(latest, "rsi")
         IN  (IF NotNa(sma_50) /\ NotNa(sma_200)
              THEN <<TrendSignal(IF MeanGT(Val(sma_50), Val(sma_200))
                                 THEN "Bullish" ELSE "Bearish")>>
              ELSE <<>>)
             \o
             (IF NotNa(bb_upper) /\ NotNa(close_price)
              THEN <<VolatilitySignal(IF AboveBand(Val(close_price), Val(bb_upper))
                                      THEN "High" ELSE "Normal")>>
              ELSE <<>>)
             \o
             (IF NotNa(macd_line) /\ NotNa(macd_signal)
              THEN <<MomentumSignal(IF Val(macd_line) > Val(macd_signal)
                                    THEN "Positive" ELSE "Negative")>>
              ELSE <<>>)
             \o
             (IF NotNa(rsi)
              THEN <<StrengthSignal(RsiLabel(Val(rsi)), RsiHundredths(Val(rsi)))>>
              ELSE <<>>)

\* ------------------------------------------------------------------ scorer
\* Score with an absent fundamental read as the number 0
ScoreAbsentAsZero(f, tech) ==
      (IF (IF NotNa(f.ROE) THEN Val(f.ROE) ELSE 0) > RoeThreshold THEN 1 ELSE 0)
    + (IF (IF NotNa(f.PE) THEN Val(f.PE) ELSE 0) < PeThreshold THEN 1 ELSE 0)
    + (IF (IF NotNa(f.DE) THEN Val(f.DE) ELSE 0) < DeThreshold THEN 1 ELSE 0)
    + (IF AnyContains(tech, "Bullish") THEN 1 ELSE 0)
    - (IF AnyContains(tech, "Overbought") THEN 1 ELSE 0)

Score(f, tech) ==
      (IF NotNa(f.ROE) /\ Val(f.ROE) > RoeThreshold THEN 1 ELSE 0)
    + (IF NotNa(f.PE) /\ Val(f.PE) < PeThreshold THEN 1 ELSE 0)
    + (IF NotNa(f.DE) /\ Val(f.DE) < DeThreshold THEN 1 ELSE 0)
    + (IF AnyContains(tech, "Bullish") THEN 1 ELSE 0)
    - (IF AnyContains(tech, "Overbought") THEN 1 ELSE 0)

\* Tier with the HOLD band starting at 0
TierHoldFromZero(s) ==
    IF s >= BuyThreshold THEN "BUY"
    ELSE IF s >= 0 THEN "HOLD"
    ELSE "SELL"

Tier(s) ==
    IF s >= BuyThreshold THEN "BUY"
    ELSE IF s >= HoldThreshold THEN "HOLD"
    ELSE "SELL"

generate_recommendation(f, tech) == Tier(Score(f, tech))

\* ------------------------------------------------------ highlight generator
generate_key_highlights(f, tech) ==
    <<<<"Overall", "Recommendation:", generate_recommendation(f, tech)>>>>
    \o (IF NotNa(f.PE)
        THEN <<<<"Valuation:",
                 IF 15 <= Val(f.PE) /\ Val(f.PE) <= PeThreshold THEN "fair"
                 ELSE IF Val(f.PE) > PeThreshold THEN "potentially high"
                 ELSE "potentially low">>>>
        ELSE <<>>)
    \o (IF AnyContains(tech, "Bullish") THEN <<<<"Technical", "Trend:", "bullish">>>>
        ELSE IF AnyContains(tech, "Bearish") THEN <<<<"Technical", "Trend:", "bearish">>>>
        ELSE <<>>)
    \o (IF NotNa(f.ROE)
        THEN <<<<"Company", "Performance:",
                 IF Val(f.ROE) > RoeThreshold THEN "strong" ELSE "moderate">>>>
        ELSE <<>>)

\* ---------------------------------------------------------- peer aggregator
PEER_MAPPING ==
    [s \in {"HDFCBANK.NS", "ICICIBANK.NS", "SBIN.NS", "INFY.NS", "TCS.NS",
             "RELIANCE.NS", "TATAMOTORS.NS"} |->
        CASE s = "HDFCBANK.NS" -> <<"ICICIBANK.NS", "SBIN.NS", "AXISBANK.NS", "KOTAKBANK.NS">>
          [] s = "ICICIBANK.NS" -> <<"HDFCBANK.NS", "AXISBANK.NS", "KOTAKBANK.NS", "SBIN.NS">>
          [] s = "SBIN.NS" -> <<"HDFCBANK.NS", "ICICIBANK.NS", "PNB.NS", "BANKBARODA.NS">>
          [] s = "INFY.NS" -> <<"TCS.NS", "WIPRO.NS", "TECHM.NS", "HCLTECH.NS">>
          [] s = "TCS.NS" -> <<"INFY.NS", "WIPRO.NS", "HCLTECH.NS", "TECHM.NS">>
          [] s = "RELIANCE.NS" -> <<"ONGC.NS", "TATAPOWER.NS", "ADANIPOWER.NS">>
          [] s = "TATAMOTORS.NS" -> <<"MARUTI.NS", "M&M.NS", "EICHERMOT.NS">>]

\* PEER_MAPPING.get(symbol, [])
PeersOf(symbol) == IF symbol \in DOMAIN PEER_MAPPING THEN PEER_MAPPING[symbol] ELSE <<>>

\* what one yf.Ticker(peer).info lookup gives: an exception, or the info mapping
LookupFailed == [ok |-> FALSE]
PeerInfos ==
    {[ok |-> TRUE, shortName |-> Some("short name"), trailingPE |-> Some(20),
      returnOnEquity |-> Some(12)],
     [ok |-> TRUE, shortName |-> None, trailingPE |-> None, returnOnEquity |-> None]}
LookupResults == {LookupFailed} \cup PeerInfos

PeerRow(peer_symbol, info) ==
    [name |-> IF NotNa(info.shortName) THEN Val(info.shortName) ELSE peer_symbol,
     pe |-> info.trailingPE,
     roe |-> info.returnOnEquity]

\* the loop of get_peer_comparison from peer i on; results[i] is what the i-th
\* lookup gives
RECURSIVE PeerLoop(_, _, _, _)
PeerLoop(peers, results, i, peer_details) ==
    IF i > Len(peers) THEN peer_details
    ELSE PeerLoop(peers, results, i + 1,
                  IF results[i].ok
                  THEN Append(peer_details, PeerRow(peers[i], results[i]))
                  ELSE peer_details)

get_peer_comparison(peers, results) == PeerLoop(peers, results, 1, <<>>)

\* ------------------------------------------------------------ report document
Spacer == [type |-> "Spacer"]
PageBreak == [type |-> "PageBreak"]
Image == [type |-> "Image"]
Paragraph(text) == [type |-> "Paragraph", text |-> text]
Table(data) == [type |-> "Table", data |-> data]

Done(story) == [story |-> story, exc |-> ""]
\* the block raised after appending story
Raise(story, exc) == [story |-> story, exc |-> exc]
\* the statements after a block run only if the block did not raise
Then(acc, blk) ==
    IF acc.exc # "" THEN acc
    ELSE [story |-> acc.story \o blk.story, exc |-> blk.exc]

\* from reportlab.lib.enums import ...
ImportedEnums == {"TA_CENTER", "TA_JUSTIFY"}

\* DataFrame.empty
Empty(statement) == statement.cols = 0 \/ statement.items = {}

OfficerLimit == 5
AnnualColumns == 3
QuarterlyColumns == 4

\* lines 168-174
CoverSection(f) ==
    Done(<<Spacer>>
         \o (IF f.logo_image THEN <<Image>> ELSE <<>>)
         \o <<Spacer, Paragraph("Saketh Equity Research"), Spacer,
              Paragraph("Professional Equity Report For:"), Paragraph("Company Name"),
              Spacer, Paragraph("Report Generated"), PageBreak>>)

\* lines 176-180: the style is built with TA_RIGHT
HeaderSection(f, recommendation_) ==
    IF "TA_RIGHT" \notin ImportedEnums THEN Raise(<<>>, "NameError")
    ELSE Done(<<Table(<<<<"Live Price / Market Cap", recommendation_>>>>), Spacer>>)

\* lines 182-184
HighlightsSection(highlights) ==
    Done(<<Paragraph("Key Report Highlights")>>
         \o [i \in 1..Len(highlights) |-> Paragraph(highlights[i][1])]
         \o <<Spacer>>)

\* lines 186-188
OverviewSection(f) ==
    Done(<<Paragraph("Company Overview"),
           Paragraph(IF f.Description THEN "Description"
                     ELSE "No company overview available."),
           Spacer>>)

RECURSIVE OfficerLines(_, _)
OfficerLines(officers, i) ==
    IF i > Min(Len(officers), OfficerLimit) THEN <<>>
    ELSE (IF officers[i].name /\ officers[i].title
          THEN <<Paragraph("officer")>> ELSE <<>>)
         \o OfficerLines(officers, i + 1)

\* lines 190-196
ManagementSection(f) ==
    Done(<<Paragraph("Key Managerial Personnel")>>
         \o (IF f.officers # <<>> THEN OfficerLines(f.officers, 1)
             ELSE <<Paragraph("Managerial data could not be retrieved.")>>)
         \o <<PageBreak>>)

\* one table row per listed item found in the statement: the item and one cell
\* per value
RECURSIVE ItemRows(_, _, _, _)
ItemRows(items, present, cells, i) ==
    IF i > Len(items) THEN <<>>
    ELSE (IF items[i] \in present
          THEN <<<<items[i]>> \o [k \in 1..cells |-> "value"]>> ELSE <<>>)
         \o ItemRows(items, present, cells, i + 1)

\* lines 198-208; financials.columns[k] for k = 0, 1, 2 needs three columns
AnnualSection(f) ==
    LET financials == f.financials
        balance_sheet == f.balance_sheet
    IN  IF ~Empty(financials) /\ ~Empty(balance_sheet)
        THEN IF financials.cols < AnnualColumns
             THEN Raise(<<Paragraph("Financial Summary (Annual, in Cr)")>>, "IndexError")
             ELSE LET fin_items == <<"Total Revenue", "Net Income", "Total Assets",
                                     "Total Liabilities Net Minority Interest">>
                      \* pd.concat: the rows of both, the columns of either
                      all_cols == Max(financials.cols, balance_sheet.cols)
                      all_items == financials.items \cup balance_sheet.items
                      fin_data ==
                          <<<<"Metric">> \o [k \in 1..AnnualColumns |-> "period"]>>
                          \o ItemRows(fin_items, all_items, Min(all_cols, AnnualColumns), 1)
                  IN  Done(<<Paragraph("Financial Summary (Annual, in Cr)"),
                             Table(fin_data), Spacer>>)
        ELSE Done(<<Paragraph("Financial Summary (Annual, in Cr)"),
                    Paragraph("Annual financial data not available."), Spacer>>)

\* lines 210-219; q_financials.columns[k] for k = 0..3 needs four columns; a
\* row holds every value of the statement's row
QuarterlySection(f) ==
    LET q_financials == f.quarterly_financials
    IN  IF ~Empty(q_financials)
        THEN IF q_financials.cols < QuarterlyColumns
             THEN Raise(<<Paragraph("Quarterly Performance (in Cr)")>>, "IndexError")
             ELSE LET q_items == <<"Total Revenue", "Net Income">>
                      q_data ==
                          <<<<"Metric">> \o [k \in 1..QuarterlyColumns |-> "period"]>>
                          \o ItemRows(q_items, q_financials.items, q_financials.cols, 1)
                  IN  Done(<<Paragraph("Quarterly Performance (in Cr)"),
                             Table(q_data), PageBreak>>)
        ELSE Done(<<Paragraph("Quarterly Performance (in Cr)"),
                    Paragraph("Quarterly performance data not available."), PageBreak>>)

\* lines 221-243; price_df.index raises on None and the handler writes the notice
ChartSection(df, tech) ==
    Done(<<Paragraph("Technical Charts & Analysis")>>
         \o (IF df # None THEN <<Table(<<<<"chart_image", tech>>>>)>>
             ELSE <<Paragraph("Could not generate charts due to a technical error.")>>)
         \o <<Spacer>>)

\* lines 244-250
PeerSection(peers) ==
    Done(<<Paragraph("Peer Comparison")>>
         \o (IF peers # <<>>
             THEN <<Table(<<<<"Company", "P/E Ratio", "ROE">>>>
                          \o [i \in 1..Len(peers) |->
                                <<peers[i].name,
                                  IF NotNa(peers[i].pe) THEN "pe" ELSE "N/A",
                                  IF NotNa(peers[i].roe) THEN "roe" ELSE "N/A">>])>>
             ELSE <<Paragraph("Peer comparison data could not be retrieved.")>>)
         \o <<PageBreak>>)

\* lines 252-255
NewsSection(items) ==
    Done(<<Paragraph("Recent News")>>
         \o (IF items # <<>> THEN [i \in 1..Len(items) |-> Paragraph("news item")]
             ELSE <<Paragraph("Recent news could not be fetched at this time.")>>))

\* lines 257-260
DisclaimerSection ==
    Done(<<Spacer, Paragraph("Disclaimer"), Paragraph("disclaimer_text")>>)

\* ReportPDF.create_pdf: the story it has appended when it returns or raises
create_pdf(f, df, items, peers, tech, recommendation_, highlights) ==
    Then(Then(Then(Then(Then(Then(Then(Then(Then(Then(
        CoverSection(f),
        HeaderSection(f, recommendation_)),
        HighlightsSection(highlights)),
        OverviewSection(f)),
        ManagementSection(f)),
        AnnualSection(f)),
        QuarterlySection(f)),
        ChartSection(df, tech)),
        PeerSection(peers)),
        NewsSection(items)),
        DisclaimerSection)

\* ---------------------------------------------------------------- pipeline
\* what the form, the data source and the news source can give
FormValues == Opt({"", "HDFCBANK.NS", "RELIANCE.NS", "WIPRO.NS"})

NoStatement == [cols |-> 0, items |-> {}]
BaseFundamentals ==
    [ROE |-> None, PE |-> None, DE |-> None, officers |-> <<>>,
     financials |-> NoStatement, balance_sheet |-> NoStatement,
     quarterly_financials |-> NoStatement, logo_image |-> FALSE,
     Description |-> TRUE]

GoodOfficer == [name |-> TRUE, title |-> TRUE]
Income(n) == [cols |-> n, items |-> {"Total Revenue", "Net Income"}]
Balance(n) ==
    [cols |-> n, items |-> {"Total Assets", "Total Liabilities Net Minority Interest"}]

FlowFundamentals ==
    {[BaseFundamentals EXCEPT
         !.ROE = r[1], !.PE = r[2], !.DE = r[3], !.officers = o,
         !.financials = IF n = 0 THEN NoStatement ELSE Income(n),
         !.balance_sheet = IF n = 0 THEN NoStatement ELSE Balance(n),
         !.quarterly_financials = IF n = 0 THEN NoStatement ELSE Income(n),
         !.logo_image = l] :
       r \in {<<None, None, None>>, <<Some(20), Some(18), Some(80)>>},
       o \in {<<>>, <<GoodOfficer>>},
       n \in {0, 2, 4},
       l \in BOOLEAN}

FlowSeries ==
    {<<>>, Series(Pattern(1, 1, 1), RsiWindow + 1),
     Series(Pattern(1, -1, 1), Sma200Window)}

NoPdf == [story |-> <<>>, exc |-> "", built |-> FALSE]

Idle(start) ==
    /\ pc = start
    /\ stock_ticker = None
    /\ fundamentals = None
    /\ price_df = None
    /\ tech_analysis = <<>>
    /\ score = None
    /\ recommendation = ""
    /\ key_highlights = <<>>
    /\ lookups = <<>>
    /\ peer_df = <<>>
    /\ news = <<>>
    /\ pdf = NoPdf
    /\ response = None

\* fetch_price: the downloaded frame, or None when it is empty
fetch_price(family) ==
    /\ pc = "fetch_price"
    /\ \E closes \in family :
          price_df' = IF Len(closes) = 0 THEN None ELSE Some(Frame(closes))
    /\ pc' = "compute_technical_indicators"
    /\ UNCHANGED <<stock_ticker, fundamentals, tech_analysis, score, recommendation,
                   key_highlights, lookups, peer_df, news, pdf, response>>

\* create_report line 274: the frame is extended in place
ComputeIndicators ==
    /\ pc = "compute_technical_indicators"
    /\ price_df' = compute_technical_indicators(price_df)
    /\ pc' = "interpret_technical"
    /\ UNCHANGED <<stock_ticker, fundamentals, tech_analysis, score, recommendation,
                   key_highlights, lookups, peer_df, news, pdf, response>>

\* create_report line 276
InterpretTechnical ==
    /\ pc = "interpret_technical"
    /\ tech_analysis' = interpret_technical(price_df)
    /\ pc' = "generate_recommendation"
    /\ UNCHANGED <<stock_ticker, fundamentals, price_df, score, recommendation,
                   key_highlights, lookups, peer_df, news, pdf, response>>

\* create_report line 277
GenerateRecommendation ==
    /\ pc = "generate_recommendation"
    /\ score' = Some(Score(Val(fundamentals), tech_analysis))
    /\ recommendation' = generate_recommendation(Val(fundamentals), tech_analysis)
    /\ pc' = "generate_key_highlights"
    /\ UNCHANGED <<stock_ticker, fundamentals, price_df, tech_analysis, key_highlights,
                   lookups, peer_df, news, pdf, response>>

\* create_report line 278
GenerateKeyHighlights ==
    /\ pc = "generate_key_highlights"
    /\ key_highlights' = generate_key_highlights(Val(fundamentals), tech_analysis)
    /\ pc' = "get_peer_comparison"
    /\ UNCHANGED <<stock_ticker, fundamentals, price_df, tech_analysis, score,
                   recommendation, lookups, peer_df, news, pdf, response>>

\* create_report lines 280-281; lookups records what each peer lookup gave
GetPeerComparison ==
    /\ pc = "get_peer_comparison"
    /\ LET peers == PeersOf(Val(stock_ticker))
       IN  \E results \in [1..Len(peers) -> LookupResults] :
             /\ lookups' = results
             /\ peer_df' = get_peer_comparison(peers, results)
    /\ pc' = "fetch_news_yfinance"
    /\ UNCHANGED <<stock_ticker, fundamentals, price_df, tech_analysis, score,
                   recommendation, key_highlights, news, pdf, response>>

\* create_report line 282: up to limit items, none when the source raises
FetchNews ==
    /\ pc = "fetch_news_yfinance"
    /\ \E k \in 0..MaxNews :
          news' = [i \in 1..Min(k, NewsLimit) |-> [title |-> "title", publisher |-> "publisher"]]
    /\ pc' = "create_pdf"
    /\ UNCHANGED <<stock_ticker, fundamentals, price_df, tech_analysis, score,
                   recommendation, key_highlights, lookups, peer_df, pdf, response>>

Respond(status, error, url) ==
    Some([status |-> status, error |-> error, download_url |-> url])

\* generate lines 299-302, up to the call of create_report
Generate ==
    /\ pc = "generate"
    /\ \E form \in FormValues :
          /\ stock_ticker' = form
          /\ IF form = None
             THEN response' = Respond(500, "internal", "") /\ pc' = "done"
             ELSE IF Val(form) = ""
             THEN response' = Respond(400, "No stock selected.", "") /\ pc' = "done"
             ELSE response' = response /\ pc' = "fetch_company_info"
    /\ UNCHANGED <<fundamentals, price_df, tech_analysis, score, recommendation,
                   key_highlights, lookups, peer_df, news, pdf>>

\* create_report line 271, and generate lines 305-306 when it raises ValueError
FetchCompanyInfo ==
    /\ pc = "fetch_company_info"
    /\ \/ /\ fundamentals' = fundamentals
          /\ response' = Respond(400, "busy", "")
          /\ pc' = "done"
       \/ /\ \E f \in FlowFundamentals : fundamentals' = Some(f)
          /\ response' = response
          /\ pc' = "fetch_price"
    /\ UNCHANGED <<stock_ticker, price_df, tech_analysis, score, recommendation,
                   key_highlights, lookups, peer_df, news, pdf>>

\* create_report lines 284-290 and generate lines 304-309: the document is
\* assembled, and the request answered by how create_report ended
CreateReportPdf ==
    /\ pc = "create_pdf"
    /\ LET r == create_pdf(Val(fundamentals), price_df, news, peer_df, tech_analysis,
                           recommendation, key_highlights)
       IN  /\ pdf' = [story |-> r.story, exc |-> r.exc, built |-> FALSE]
           /\ response' = IF r.exc = "" THEN Respond(200, "", Val(stock_ticker))
                          ELSE IF r.exc = "ValueError" THEN Respond(400, "busy", "")
                          ELSE Respond(500, "internal", "")
    /\ pc' = "done"
    /\ UNCHANGED <<stock_ticker, fundamentals, price_df, tech_analysis, score,
                   recommendation, key_highlights, lookups, peer_df, news>>

\* --------------------------------------------------------- the /generate request
Init == Idle("generate")
Next ==
    \/ Generate
    \/ FetchCompanyInfo
    \/ fetch_price(FlowSeries)
    \/ ComputeIndicators
    \/ InterpretTechnical
    \/ GenerateRecommendation
    \/ GenerateKeyHighlights
    \/ GetPeerComparison
    \/ FetchNews
    \/ CreateReportPdf
Spec == Init /\ [][Next]_vars

\* ------------------------------------------------ the indicator engine alone
InitInd == Idle("fetch_price")
NextInd == fetch_price(AllSeries) \/ ComputeIndicators \/ InterpretTechnical
SpecInd == InitInd /\ [][NextInd]_vars

\* ------------------------------------------------- the interpreter alone
\* interpret_technical applied to a frame whose latest row is drawn freely:
\* every column it reads is NaN or a value.
Vals == 0..MaxVal
RsiSums == {0, 3, 7}
DrawnRows ==
    [Close : Opt(Vals),
     sma_50 : Opt({[sum |-> v * Sma50Window, win |-> Sma50Window] : v \in Vals}),
     sma_200 : Opt({[sum |-> v * Sma200Window, win |-> Sma200Window] : v \in Vals}),
     bb_upper : Opt({[mid |-> [sum |-> v * BbWindow, win |-> BbWindow],
                      std |-> [dev |-> d, win |-> BbWindow],
                      k |-> BbWidth] : v \in Vals, d \in {0, BbWindow * (BbWindow - 1)}}),
     macd_line : Opt(Vals),
     macd_signal : Opt(Vals),
     rsi : Opt({[gain |-> [sum |-> g, win |-> RsiWindow], loss |-> l] :
                  g \in RsiSums,
                  l \in {[num |-> 1, den |-> EpsInv]} \cup
                        {[num |-> n, den |-> RsiWindow] : n \in RsiSums \ {0}}})]

InitInterp ==
    /\ pc = "interpret_technical"
    /\ \E row \in DrawnRows :
          price_df = Some([c \in DOMAIN row |-> <<row[c]>>])
    /\ stock_ticker = None
    /\ fundamentals = None
    /\ tech_analysis = <<>>
    /\ score = None
    /\ recommendation = ""
    /\ key_highlights = <<>>
    /\ lookups = <<>>
    /\ peer_df = <<>>
    /\ news = <<>>
    /\ pdf = NoPdf
    /\ response = None
NextInterp == InterpretTechnical
SpecInterp == InitInterp /\ [][NextInterp]_vars

\* ------------------------------------------------------ the scorer alone
\* generate_recommendation applied to drawn fundamentals and a drawn signal list.
Around(t) == {-1, 0} \cup ((t - Margin)..(t + Margin))
RoeValues == Around(RoeThreshold)
PeValues == Around(PeThreshold)
DeValues == Around(DeThreshold)

SignalCandidates ==
    {TrendSignal("Bullish"), TrendSignal("Bearish"), StrengthSignal("Overbought", 8000),
     StrengthSignal("Neutral", 5000), NotAvailableSignal}
SignalLists == UNION {[1..n -> SignalCandidates] : n \in 0..MaxSignals}

InitScore ==
    /\ pc = "generate_recommendation"
    /\ \E roe \in Opt(RoeValues), pe \in Opt(PeValues), de \in Opt(DeValues) :
          fundamentals = Some([BaseFundamentals EXCEPT !.ROE = roe, !.PE = pe, !.DE = de])
    /\ tech_analysis \in SignalLists
    /\ stock_ticker = None
    /\ price_df = None
    /\ score = None
    /\ recommendation = ""
    /\ key_highlights = <<>>
    /\ lookups = <<>>
    /\ peer_df = <<>>
    /\ news = <<>>
    /\ pdf = NoPdf
    /\ response = None
NextScore == GenerateRecommendation
SpecScore == InitScore /\ [][NextScore]_vars

\* ------------------------------------------------- the report assembler alone
\* create_pdf applied to drawn fundamentals, price frame, peer table and news.
BadOfficer == [name |-> TRUE, title |-> FALSE]
DrawnOfficers ==
    {<<>>, <<BadOfficer>>, <<GoodOfficer>>, <<BadOfficer, GoodOfficer>>,
     [i \in 1..(OfficerLimit + 1) |-> GoodOfficer]}
DrawnIncome ==
    {NoStatement} \cup
    {[cols |-> n, items |-> it] :
       n \in 1..MaxCols, it \in {{"Total Revenue", "Net Income"}, {"Total Revenue"}}}
DocFundamentals ==
    {[BaseFundamentals EXCEPT
         !.ROE = Some(20), !.PE = Some(18), !.DE = Some(80), !.officers = o,
         !.financials = fin, !.balance_sheet = bs, !.quarterly_financials = q,
         !.logo_image = l, !.Description = d] :
       o \in DrawnOfficers, fin \in DrawnIncome,
       bs \in {NoStatement, Balance(1), Balance(MaxCols)},
       q \in DrawnIncome, l \in BOOLEAN, d \in BOOLEAN}

InitDoc ==
    /\ pc = "create_pdf"
    /\ stock_ticker = Some("HDFCBANK.NS")
    /\ \E f \in DocFundamentals : fundamentals = Some(f)
    /\ price_df \in {None,
                     compute_technical_indicators(
                         Some(Frame(Series(Pattern(1, 1, 1), RsiWindow + 1))))}
    /\ tech_analysis = interpret_technical(price_df)
    /\ score = Some(Score(Val(fundamentals), tech_analysis))
    /\ recommendation = generate_recommendation(Val(fundamentals), tech_analysis)
    /\ key_highlights = generate_key_highlights(Val(fundamentals), tech_analysis)
    /\ \E results \in [1..1 -> LookupResults] :
          /\ lookups = results
          /\ peer_df = get_peer_comparison(<<"ICICIBANK.NS">>, results)
    /\ news \in {<<>>, <<[title |-> "title", publisher |-> "publisher"]>>}
    /\ pdf = NoPdf
    /\ response = None
NextDoc == CreateReportPdf
SpecDoc == InitDoc /\ [][NextDoc]_vars

\* ------------------------------------------- indicators, signals and score
\* compute_technical_indicators, interpret_technical and generate_recommendation
\* run one after the other on a linear series and drawn fundamentals.
ScenarioBars == 250

\* n closes on a line from 100 to 200 (rising) or from 200 to 100, in units of
\* 100/(n - 1): every comparison the indicators feed is unchanged by the unit
Linear(n, rising) ==
    [i \in 1..n |-> IF rising THEN (n - 1) + (i - 1) ELSE 2 * (n - 1) - (i - 1)]
ScenarioLengths ==
    {RsiWindow - 1, RsiWindow, Sma200Window - 1, Sma200Window,
     ScenarioBars - 1, ScenarioBars, ScenarioBars + 1}
ScenarioSeries == {Linear(n, r) : n \in ScenarioLengths, r \in BOOLEAN}
ScenarioFundamentals ==
    {[BaseFundamentals EXCEPT !.ROE = r[1], !.PE = r[2], !.DE = r[3]] :
       r \in {<<None, None, None>>, <<Some(20), Some(18), Some(80)>>,
              <<Some(RoeThreshold), Some(PeThreshold), Some(DeThreshold)>>}}

InitScenario ==
    /\ pc = "fetch_price"
    /\ fundamentals \in {Some(f) : f \in ScenarioFundamentals}
    /\ stock_ticker = None
    /\ price_df = None
    /\ tech_analysis = <<>>
    /\ score = None
    /\ recommendation = ""
    /\ key_highlights = <<>>
    /\ lookups = <<>>
    /\ peer_df = <<>>
    /\ news = <<>>
    /\ pdf = NoPdf
    /\ response = None
NextScenario ==
    \/ fetch_price(ScenarioSeries)
    \/ ComputeIndicators
    \/ InterpretTechnical
    \/ GenerateRecommendation
SpecScenario == InitScenario /\ [][NextScenario]_vars

\* ------------------------------------------------------------------ claims
Scored == pc = "generate_key_highlights"

\* C1: the tier is decided by the score alone: score >= 3 gives BUY, a score of
\* 1 or 2 gives HOLD, score <= 0 gives SELL, and exactly one of the three holds.
C1_TierTotal ==
    Scored =>
        /\ (Val(score) >= 3 => recommendation = "BUY")
        /\ (Val(score) \in {1, 2} => recommendation = "HOLD")
        /\ (Val(score) <= 0 => recommendation = "SELL")
        /\ recommendation \in {"BUY", "HOLD", "SELL"}

\* a negative score has been mapped to SELL
C1_Witness == Scored /\ Val(score) = -1 /\ recommendation = "SELL"

\* the five terms of the score, as the claim writes them
C2_Term(b) == IF b THEN 1 ELSE 0
C2_Formula(roe, pe, de, tech) ==
      C2_Term(roe # None /\ Val(roe) > 15)
    + C2_Term(pe # None /\ Val(pe) < 30)
    + C2_Term(de # None /\ Val(de) < 150)
    + C2_Term(\E j \in 1..Len(tech) : Contains(tech[j], "Bullish"))
    - C2_Term(\E j \in 1..Len(tech) : Contains(tech[j], "Overbought"))

\* C2: the score is the sum of the five terms; an absent fundamental adds 0,
\* ROE = 0.15 and P/E = 30 add nothing; the score does not decrease when ROE
\* grows nor increase when P/E or D/E grows, the other inputs fixed.
C2_ScoreFormula ==
    Scored =>
        LET f == Val(fundamentals)
        IN  /\ Val(score) = C2_Formula(f.ROE, f.PE, f.DE, tech_analysis)
            /\ \A r \in RoeValues :
                  (f.ROE # None /\ r >= Val(f.ROE)) =>
                      C2_Formula(Some(r), f.PE, f.DE, tech_analysis) >= Val(score)
            /\ \A q \in PeValues :
                  (f.PE # None /\ q >= Val(f.PE)) =>
                      C2_Formula(f.ROE, Some(q), f.DE, tech_analysis) <= Val(score)
            /\ \A d \in DeValues :
                  (f.DE # None /\ d >= Val(f.DE)) =>
                      C2_Formula(f.ROE, f.PE, Some(d), tech_analysis) <= Val(score)

\* ROE exactly 0.15, P/E exactly 30 and no D/E: no point is awarded
C2_Witness ==
    /\ Scored
    /\ Val(fundamentals).ROE = Some(15)
    /\ Val(fundamentals).PE = Some(30)
    /\ Val(fundamentals).DE = None
    /\ tech_analysis = <<>>
    /\ Val(score) = 0

Interpreted == pc = "generate_recommendation"
Computed == pc \in {"interpret_technical", "generate_recommendation"} /\ price_df # None

C7_Cats == <<"<b>Trend", "<b>Volatility", "<b>Momentum", "<b>Strength">>
C7_Index(sig) == CHOOSE k \in 1..4 : C7_Cats[k] = sig[1]
C7_Has(c) == \E j \in 1..Len(tech_analysis) : tech_analysis[j][1] = c
C7_Label(c) ==
    LET j == CHOOSE j \in 1..Len(tech_analysis) : tech_analysis[j][1] = c
    IN  tech_analysis[j][3]

C8_RsiRange ==
    Computed =>
        LET df == Val(price_df)
            close == Closes(df)
        IN  \A i \in 1..Len(close) :
              df.rsi[i] # None =>
                /\ ~RsiLT(Val(df.rsi[i]), 0)
                /\ ~RsiGT(Val(df.rsi[i]), 10000)
                /\ (i >= 15 /\ \A j \in (i - 13)..i : close[j] >= close[j - 1]) =>
                      /\ Val(df.rsi[i]).loss = [num |-> 1, den |-> EpsInv]
                      /\ RsiGT(Val(df.rsi[i]), 9999)

\* C9: RSI is undefined at each of the first 14 bars and defined from the 15th
\* on; a series of 14 or fewer bars gets no Strength signal.
C9_RsiFirst14 ==
    Computed =>
        LET df == Val(price_df)
            n == Len(df.Close)
        IN  /\ \A i \in 1..n : (df.rsi[i] # None) <=> (i >= 15)
            /\ (Interpreted /\ n <= 14) => ~C7_Has("<b>Strength")

\* C10: every indicator column is as long as the price series; sma_200 is
\* undefined at bars 1..199 and defined from bar 200 on; the Trend signal is
\* emitted only for a series of at least 200 bars.
C10_Sma200 ==
    Computed =>
        LET df == Val(price_df)
            n == Len(df.Close)
        IN  /\ \A c \in DOMAIN df : Len(df[c]) = n
            /\ \A i \in 1..n : (df.sma_200[i] # None) <=> (i >= 200)
            /\ (Interpreted /\ C7_Has("<b>Trend")) => n >= 200

\* a series of at least 200 bars whose Trend signal was emitted
C10_Witness ==
    /\ Interpreted
    /\ price_df # None
    /\ Len(Val(price_df).Close) >= 200
    /\ Val(price_df).sma_200[199] = None
    /\ Val(price_df).sma_200[200] # None
    /\ C7_Has("<b>Trend")

Answered == pc = "done"
Assembled == pc = "done" /\ fundamentals # None

\* C3: once fetch_company_info has succeeded the request ends with the
\* download answer and no exception, whatever optional data is missing; the
\* busy answer is given only when the fundamentals fetch failed.
C3_ReportCompletes ==
    /\ Assembled => (pdf.exc = "" /\ Val(response).status = 200)
    /\ (Answered /\ Val(response).error = "busy") => fundamentals = None

C4_Headings ==
    <<"Saketh Equity Research", "Key Report Highlights", "Company Overview",
      "Key Managerial Personnel", "Financial Summary (Annual, in Cr)",
      "Quarterly Performance (in Cr)", "Technical Charts & Analysis",
      "Peer Comparison", "Recent News", "Disclaimer">>
C4_IsHeading(e) ==
    e.type = "Paragraph" /\ \E k \in 1..Len(C4_Headings) : C4_Headings[k] = e.text
C4_IsPageBreak(e) == e.type = "PageBreak"
HasText(story, t) ==
    \E i \in 1..Len(story) : story[i].type = "Paragraph" /\ story[i].text = t
C4_NoUsableOfficer(f) ==
    \A i \in 1..Min(Len(f.officers), 5) : ~(f.officers[i].name /\ f.officers[i].title)

\* C4: for every input the story holds the sections in the one fixed order with
\* the same four page breaks, and every section whose input is missing or
\* unusable holds its "not available" notice.
C4_StableStructure ==
    Assembled =>
        LET f == Val(fundamentals)
            story == pdf.story
            heads == SelectSeq(story, C4_IsHeading)
        IN  /\ pdf.exc = ""
            /\ [i \in 1..Len(heads) |-> heads[i].text] = C4_Headings
            /\ \E i \in 1..Len(story) : story[i].type = "Table"
                  /\ story[i].data[1][1] = "Live Price / Market Cap"
            /\ Len(SelectSeq(story, C4_IsPageBreak)) = 4
            /\ ~f.Description => HasText(story, "No company overview available.")
            /\ C4_NoUsableOfficer(f) =>
                  HasText(story, "Managerial data could not be retrieved.")
            /\ (Empty(f.financials) \/ Empty(f.balance_sheet)) =>
                  HasText(story, "Annual financial data not available.")
            /\ Empty(f.quarterly_financials) =>
                  HasText(story, "Quarterly performance data not available.")
            /\ price_df = None =>
                  HasText(story, "Could not generate charts due to a technical error.")
            /\ peer_df = <<>> =>
                  HasText(story, "Peer comparison data could not be retrieved.")
            /\ news = <<>> =>
                  HasText(story, "Recent news could not be fetched at this time.")

\* The management block of C4 taken alone (lines 190-196): with no usable
\* officer it holds the notice.
C4_ManagementBlock ==
    fundamentals # None =>
        (C4_NoUsableOfficer(Val(fundamentals)) =>
            HasText(ManagementSection(Val(fundamentals)).story,
                    "Managerial data could not be retrieved."))

C5_RowsMatchHeader(data) == \A r \in 2..Len(data) : Len(data[r]) = Len(data[1])
C5_RowsAre(data, listed, present) ==
    \A k \in 1..Len(listed) :
       (\E r \in 2..Len(data) : data[r][1] = listed[k]) <=> listed[k] \in present

\* C5: a non-empty annual statement of n periods gives a table of min(n, 3)
\* period columns, a non-empty quarterly statement of m periods one of
\* min(m, 4); every row is as long as the header; a listed item missing from the
\* statement has no row; neither table raises.
C5_TableShapes ==
    fundamentals # None =>
        LET f == Val(fundamentals)
            a == AnnualSection(f)
            q == QuarterlySection(f)
        IN  /\ (~Empty(f.financials) /\ ~Empty(f.balance_sheet)) =>
                  /\ a.exc = ""
                  /\ a.story[2].type = "Table"
                  /\ Len(a.story[2].data[1]) = 1 + Min(f.financials.cols, 3)
                  /\ C5_RowsMatchHeader(a.story[2].data)
                  /\ C5_RowsAre(a.story[2].data,
                                <<"Total Revenue", "Net Income", "Total Assets",
                                  "Total Liabilities Net Minority Interest">>,
                                f.financials.items \cup f.balance_sheet.items)
            /\ ~Empty(f.quarterly_financials) =>
                  /\ q.exc = ""
                  /\ q.story[2].type = "Table"
                  /\ Len(q.story[2].data[1]) = 1 + Min(f.quarterly_financials.cols, 4)
                  /\ C5_RowsMatchHeader(q.story[2].data)
                  /\ C5_RowsAre(q.story[2].data, <<"Total Revenue", "Net Income">>,
                                f.quarterly_financials.items)

PeersLookedUp == pc \in {"fetch_news_yfinance", "create_pdf", "done"} /\ fundamentals # None
C6_Succeeded == {i \in 1..Len(lookups) : lookups[i].ok}
C6_Nth(j) == CHOOSE i \in C6_Succeeded : Cardinality({k \in C6_Succeeded : k <= i}) = j

\* The rows of C6 taken alone (get_peer_comparison, lines 109-116): every peer is
\* looked up, and the table holds one row per successful lookup, in list order.
C6_RowsInOrder ==
    PeersLookedUp =>
        LET peers == PeersOf(Val(stock_ticker))
        IN  /\ Len(lookups) = Len(peers)
            /\ Len(peer_df) = Cardinality(C6_Succeeded)
            /\ \A j \in 1..Len(peer_df) :
                  peer_df[j] = PeerRow(peers[C6_Nth(j)], lookups[C6_Nth(j)])

C11_Scenario ==
    /\ Scored
    /\ price_df # None
    /\ Closes(Val(price_df)) = Linear(ScenarioBars, TRUE)
    /\ Val(fundamentals).ROE = Some(20)
    /\ Val(fundamentals).PE = Some(18)
    /\ Val(fundamentals).DE = Some(80)
C11_Bullish ==
    \E j \in 1..Len(tech_analysis) :
       tech_analysis[j] = <<"<b>Trend", "(SMA):</b>", "Bullish", "(Golden", "Cross)">>

\* C11 as stated: in the scenario the Trend signal is Bullish (Golden Cross),
\* the score is 4 and the recommendation is BUY.
C11_ScoreFour ==
    C11_Scenario =>
        /\ C11_Bullish
        /\ Val(score) = 4
        /\ recommendation = "BUY"

\* C11 amended: in the scenario the Trend signal is Bullish (Golden Cross), the
\* Strength signal is Overbought (every delta is a gain, RSI prints 100.00), the
\* score is 3 = 1 + 1 + 1 + 1 - 1 and the recommendation is BUY.
C11_ScoreThree ==
    C11_Scenario =>
        /\ C11_Bullish
        /\ C7_Has("<b>Strength")
        /\ C7_Label("<b>Strength") = "Overbought"
        /\ tech_analysis[Len(tech_analysis)][5] = "100.00"
        /\ Val(score) = 3
        /\ recommendation = "BUY"

\* the scenario has been scored, with both the Bullish and the Overbought signal
C11_Witness ==
    /\ C11_Scenario
    /\ C11_Bullish
    /\ AnyContains(tech_analysis, "Overbought")
    /\ score = Some(3)
    /\ recommendation = "BUY"

C12_Download == Answered /\ Val(response).download_url # ""

\* C12: an answer carrying a download_url is given only after the document of
\* that name has been built (ReportPDF.generate has run on the story).
C12_DownloadAfterBuild == C12_Download => pdf.built

\* No request is ever answered with a download_url: create_pdf raises at the
\* summary header on every call, so C12_DownloadAfterBuild has no case to hold in.
C12_NoDownload == ~C12_Download

====
